---------------------------- MODULE Spec2Model ----------------------------
(***************************************************************************)
(* A model of cryptography/bindings/openssl/backend.py: the cipher         *)
(* registry (Ciphers._cipher_registry, register_cipher_adapter, supported, *)
(* GetCipherByName) and the streaming cipher contexts (create / update /   *)
(* finalize around the EVP_* calls), Hashes (supported, create_ctx,        *)
(* update_ctx, finalize_ctx, copy_ctx), and register_cipher_adapter called *)
(* from two threads.                                                       *)
(*                                                                         *)
(* Python exceptions are modelled by the field err of the variable last,   *)
(* which records the outcome of the operation that has just run:           *)
(* "ValueError", "KeyError" and "AssertionError" are the exception types   *)
(* the source raises (assert statements are taken as enabled).             *)
(*                                                                         *)
(* The native engine is outside the repository.  Its calls are modelled by *)
(* what the EVP interface does: names are looked up in the table of the    *)
(* linked build, EVP_*Update buffers the bytes that do not fill a block,   *)
(* EVP_*Final_ex refuses a buffered partial block when padding is off.     *)
(* The block transform itself is a small invertible stand-in, bytes are    *)
(* numbers modulo ByteMod, and the block lengths are scaled down.          *)
(***************************************************************************)
EXTENDS Integers, Sequences, FiniteSets, TLC

VARIABLES
    engine,     \* the cipher names the linked engine build knows
    registry,   \* Ciphers._cipher_registry: (cipher class, mode class) -> adapter
    dyn,        \* history: the (cipher class, mode class, adapter) registered
                \* with success after construction
    ctx,        \* the cipher context the caller works with, and its native handle
    md,         \* the digest contexts the caller works with, and the engine's
                \* md_data blocks
    thr,        \* the threads inside register_cipher_adapter: where each is
                \* and its arguments
    last        \* the outcome of the operation that has just run

vars == <<engine, registry, dyn, ctx, md, thr, last>>

NULL == "NULL"

(***************************************************************************)
(* Descriptors                                                             *)
(***************************************************************************)
CipherKinds == {"AES", "Camellia", "TripleDES"}

ModeKinds == {"CBC", "CTR", "ECB", "OFB", "CFB"}

Pairs == CipherKinds \X ModeKinds

\* the name attribute of a cipher class
CipherName(kind) ==
    CASE kind = "AES" -> "AES"
      [] kind = "Camellia" -> "camellia"
      [] kind = "TripleDES" -> "3DES"

\* the name attribute of a mode class
ModeName(kind) ==
    CASE kind = "CBC" -> "CBC"
      [] kind = "CTR" -> "CTR"
      [] kind = "ECB" -> "ECB"
      [] kind = "OFB" -> "OFB"
      [] kind = "CFB" -> "CFB"

\* cipher.key_size: the key's length in bits
key_size(cipher) == cipher.keylen * 8

\* the key lengths, in bytes, a caller builds each cipher with
KeyLens(kind) == IF kind = "TripleDES" THEN {16, 24} ELSE {16, 32}

(***************************************************************************)
(* GetCipherByName                                                         *)
(***************************************************************************)
\* the formatted name used as it is
LowerOmitted(w) == w

\* str.lower() on the words a format can produce; digits and "-" stay
Lower(w) ==
    CASE w = "AES" -> "aes"
      [] w = "3DES" -> "3des"
      [] w = "CBC" -> "cbc"
      [] w = "CTR" -> "ctr"
      [] w = "ECB" -> "ecb"
      [] w = "OFB" -> "ofb"
      [] w = "CFB" -> "cfb"
      [] OTHER -> w

\* the two format strings _register_default_ciphers builds adapters from
FmtFull == "{cipher.name}-{cipher.key_size}-{mode.name}"

FmtDes3 == "des-ede3-{mode.name}"

Adapters == {FmtFull, FmtDes3}

\* self._fmt.format(cipher=cipher, mode=mode).lower()
FormatName(fmt, cipher, mode) ==
    IF fmt = FmtFull
    THEN Lower(CipherName(cipher.kind)) \o "-" \o ToString(key_size(cipher))
             \o "-" \o Lower(ModeName(mode.kind))
    ELSE "des-ede3-" \o Lower(ModeName(mode.kind))

\* backend.lib.EVP_get_cipherbyname(name): the handle (named by the cipher
\* name) or NULL
EVP_get_cipherbyname(eng, name) == IF name \in eng THEN name ELSE NULL

\* GetCipherByName.__call__
GetCipherByName(fmt, eng, cipher, mode) ==
    EVP_get_cipherbyname(eng, FormatName(fmt, cipher, mode))

(***************************************************************************)
(* The engine's cipher table                                               *)
(***************************************************************************)
AesNames ==
    {"aes-" \o ToString(k) \o "-" \o m :
        k \in {128, 192, 256}, m \in {"cbc", "ctr", "ecb", "ofb", "cfb"}}

\* the engine has no Camellia in counter mode
CamelliaNames ==
    {"camellia-" \o ToString(k) \o "-" \o m :
        k \in {128, 192, 256}, m \in {"cbc", "ecb", "ofb", "cfb"}}

Des3Names == {"des-ede3-cbc", "des-ede3-cfb", "des-ede3-ofb", "des-ede3"}

\* OpenSSL_add_all_algorithms() of a full build and of a no-camellia build
EngineBuilds ==
    {AesNames \cup CamelliaNames \cup Des3Names, AesNames \cup Des3Names}

(***************************************************************************)
(* The registry                                                            *)
(***************************************************************************)
EmptyRegistry == [p \in Pairs |-> "none"]

Registered(reg) == {p \in Pairs : reg[p] # "none"}

\* (cipher_cls, mode_cls) in self._cipher_registry
_cipher_registry_contains(reg, cipher_cls, mode_cls) ==
    reg[<<cipher_cls, mode_cls>>] # "none"

\* self._cipher_registry[cipher_cls, mode_cls] = adapter
_cipher_registry_setitem(reg, cipher_cls, mode_cls, adapter) ==
    [reg EXCEPT ![<<cipher_cls, mode_cls>>] = adapter]

\* register_cipher_adapter without its membership test
register_overwriting(reg, cipher_cls, mode_cls, adapter) ==
    [err |-> "none",
     reg |-> [reg EXCEPT ![<<cipher_cls, mode_cls>>] = adapter]]

\* register_cipher_adapter storing the adapter for every mode class the
\* cipher class has no adapter for
register_for_all_modes(reg, cipher_cls, mode_cls, adapter) ==
    IF reg[<<cipher_cls, mode_cls>>] # "none"
    THEN [err |-> "ValueError", reg |-> reg]
    ELSE [err |-> "none",
          reg |-> [p \in Pairs |->
                      IF p[1] = cipher_cls /\ reg[p] = "none" THEN adapter
                      ELSE reg[p]]]

\* Ciphers.register_cipher_adapter: the exception raised and the registry
register_cipher_adapter(reg, cipher_cls, mode_cls, adapter) ==
    IF reg[<<cipher_cls, mode_cls>>] # "none"
    THEN [err |-> "ValueError", reg |-> reg]
    ELSE [err |-> "none",
          reg |-> [reg EXCEPT ![<<cipher_cls, mode_cls>>] = adapter]]

\* itertools.product(a, b) as the sequence it yields
RECURSIVE Product(_, _)
Product(a, b) ==
    IF a = <<>> THEN <<>>
    ELSE [i \in 1..Len(b) |-> <<Head(a), b[i]>>] \o Product(Tail(a), b)

\* the second loop running over all five modes
DefaultRegistrationsAllModes ==
    LET both == Product(<<"AES", "Camellia">>,
                        <<"CBC", "CTR", "ECB", "OFB", "CFB">>)
        des  == <<"CBC", "CTR", "ECB", "OFB", "CFB">>
    IN  [i \in 1..Len(both) |-> <<both[i][1], both[i][2], FmtFull>>]
        \o [i \in 1..Len(des) |-> <<"TripleDES", des[i], FmtDes3>>]

\* the (class, class, adapter) triples of the two loops, in order
DefaultRegistrations ==
    LET both == Product(<<"AES", "Camellia">>,
                        <<"CBC", "CTR", "ECB", "OFB", "CFB">>)
        des  == <<"CBC", "CFB", "OFB">>
    IN  [i \in 1..Len(both) |-> <<both[i][1], both[i][2], FmtFull>>]
        \o [i \in 1..Len(des) |-> <<"TripleDES", des[i], FmtDes3>>]

\* the registrations run one after the other; the first exception ends them
RECURSIVE RegisterAll(_, _)
RegisterAll(reg, todo) ==
    IF todo = <<>> THEN [err |-> "none", reg |-> reg]
    ELSE LET r == register_cipher_adapter(reg, Head(todo)[1], Head(todo)[2],
                                          Head(todo)[3])
         IN  IF r.err # "none" THEN r ELSE RegisterAll(r.reg, Tail(todo))

\* Ciphers._register_default_ciphers, on the empty registry of __init__
_register_default_ciphers == RegisterAll(EmptyRegistry, DefaultRegistrations)

\* supported without its except clause
supported_uncaught(reg, eng, cipher, mode) ==
    IF reg[<<cipher.kind, mode.kind>>] = "none"
    THEN [err |-> "KeyError", ret |-> "-"]
    ELSE [err |-> "none",
          ret |-> NULL # GetCipherByName(reg[<<cipher.kind, mode.kind>>],
                                         eng, cipher, mode)]

\* supported answering for the registry alone, without asking the engine
supported_registered_only(reg, eng, cipher, mode) ==
    [err |-> "none", ret |-> reg[<<cipher.kind, mode.kind>>] # "none"]

\* Ciphers.supported
supported(reg, eng, cipher, mode) ==
    IF reg[<<cipher.kind, mode.kind>>] = "none"
    THEN [err |-> "none", ret |-> FALSE]
    ELSE [err |-> "none",
          ret |-> NULL # GetCipherByName(reg[<<cipher.kind, mode.kind>>],
                                         eng, cipher, mode)]


(***************************************************************************)
(* The engine's cipher contexts                                            *)
(***************************************************************************)
\* one more than the largest value of an unsigned char
ByteMod == 256

\* the scaled-down length of a TripleDES block; AES and Camellia blocks are
\* twice as long
BlockUnit == 2

\* the most bytes fed to one context
MaxData == 4

\* the bytes a caller feeds
InBytes == {0, 1}

StreamModes == {"CTR", "OFB", "CFB"}

CipherBlock(kind) == IF kind = "TripleDES" THEN BlockUnit ELSE 2 * BlockUnit

Zeros(n) == [i \in 1..n |-> 0]

\* an EVP_CIPHER_CTX with no cipher bound: as allocated, and as cleaned up
BlankNative ==
    [kind |-> "-", mode |-> "-", enc |-> TRUE, key |-> 0, oiv |-> NULL,
     reg |-> <<>>, buf |-> <<>>, padding |-> TRUE, final |-> <<>>,
     final_used |-> FALSE]

\* EVP_CIPHER_CTX_block_size
EVP_CIPHER_CTX_block_size(n) ==
    IF n.mode \in StreamModes THEN 1 ELSE CipherBlock(n.kind)

\* the stand-in block transform under key k, and its inverse
BlockEnc(k, blk) ==
    [i \in 1..Len(blk) |-> (blk[(i % Len(blk)) + 1] + k + i) % ByteMod]

BlockDec(k, blk) ==
    [j \in 1..Len(blk) |->
        LET i == IF j = 1 THEN Len(blk) ELSE j - 1
        IN  (blk[i] - k - i) % ByteMod]

AddSeq(a, b) == [i \in 1..Len(a) |-> (a[i] + b[i]) % ByteMod]

SubtractSeq(a, b) == [i \in 1..Len(a) |-> (a[i] - b[i]) % ByteMod]

\* one unit (a block, or a byte in the stream modes) through the cipher:
\* the output and the chaining register afterwards
CipherUnit(n, reg, blk) ==
    LET ks == BlockEnc(n.key, reg)[1]
        o  == IF n.enc THEN (blk[1] + ks) % ByteMod
                       ELSE (blk[1] - ks) % ByteMod
    IN  CASE n.mode = "ECB" ->
              [out |-> IF n.enc THEN BlockEnc(n.key, blk)
                                ELSE BlockDec(n.key, blk),
               reg |-> reg]
          [] n.mode = "CBC" ->
              IF n.enc
              THEN LET c == BlockEnc(n.key, AddSeq(blk, reg))
                   IN  [out |-> c, reg |-> c]
              ELSE [out |-> SubtractSeq(BlockDec(n.key, blk), reg),
                    reg |-> blk]
          [] n.mode = "CTR" ->
              [out |-> <<o>>,
               reg |-> [reg EXCEPT ![Len(reg)] = (@ + 1) % ByteMod]]
          [] n.mode = "OFB" ->
              [out |-> <<o>>, reg |-> Tail(reg) \o <<ks>>]
          [] n.mode = "CFB" ->
              [out |-> <<o>>,
               reg |-> Tail(reg) \o <<IF n.enc THEN o ELSE blk[1]>>]

\* ctx->cipher->do_cipher over a whole number of units
RECURSIVE DoCipher(_, _, _)
DoCipher(n, reg, data) ==
    IF data = <<>> THEN [out |-> <<>>, reg |-> reg]
    ELSE LET bs   == EVP_CIPHER_CTX_block_size(n)
             u    == CipherUnit(n, reg, SubSeq(data, 1, bs))
             rest == DoCipher(n, u.reg, SubSeq(data, bs + 1, Len(data)))
         IN  [out |-> u.out \o rest.out, reg |-> rest.reg]

\* EVP_EncryptInit_ex / EVP_DecryptInit_ex: binds cipher, key and iv (kept
\* as passed in oiv, and loaded into the chaining register); padding is on
\* until EVP_CIPHER_CTX_set_padding(ctx, 0)
EVP_CipherInit_ex(enc, cipher, mode, iv_nonce) ==
    [kind |-> cipher.kind, mode |-> mode.kind, enc |-> enc, key |-> cipher.keylen,
     oiv |-> iv_nonce,
     reg |-> IF mode.kind = "ECB" THEN <<>> ELSE iv_nonce,
     buf |-> <<>>, padding |-> TRUE, final |-> <<>>, final_used |-> FALSE]

\* EVP_CIPHER_CTX_set_padding
EVP_CIPHER_CTX_set_padding(n, pad) == [n EXCEPT !.padding = (pad # 0)]

\* EVP_EncryptUpdate: whole blocks of (buffered bytes + input) are
\* transformed, the rest stays buffered
EVP_EncryptUpdate(n, in) ==
    IF Len(in) = 0 THEN [res |-> 1, out |-> <<>>, n |-> n]
    ELSE LET bs    == EVP_CIPHER_CTX_block_size(n)
             total == n.buf \o in
             whole == (Len(total) \div bs) * bs
             d     == DoCipher(n, n.reg, SubSeq(total, 1, whole))
         IN  [res |-> 1, out |-> d.out,
              n |-> [n EXCEPT !.reg = d.reg,
                              !.buf = SubSeq(total, whole + 1, Len(total))]]

\* EVP_DecryptUpdate: EVP_EncryptUpdate when padding is off; with padding on
\* the last whole block is held back for EVP_DecryptFinal_ex
EVP_DecryptUpdate(n, in) ==
    IF Len(in) = 0 THEN [res |-> 1, out |-> <<>>, n |-> n]
    ELSE IF ~n.padding THEN EVP_EncryptUpdate(n, in)
    ELSE LET bs   == EVP_CIPHER_CTX_block_size(n)
             u    == EVP_EncryptUpdate(n, in)
             head == IF n.final_used THEN n.final ELSE <<>>
             hold == bs > 1 /\ Len(u.n.buf) = 0
             keep == IF hold THEN Len(u.out) - bs ELSE Len(u.out)
         IN  [res |-> 1,
              out |-> head \o SubSeq(u.out, 1, keep),
              n |-> [u.n EXCEPT !.final_used = hold,
                                !.final = IF hold
                                          THEN SubSeq(u.out, keep + 1, Len(u.out))
                                          ELSE n.final]]

\* EVP_EncryptFinal_ex
EVP_EncryptFinal_ex(n) ==
    LET bs == EVP_CIPHER_CTX_block_size(n)
        bl == Len(n.buf)
    IN  IF bs = 1 THEN [res |-> 1, out |-> <<>>, n |-> n]
        ELSE IF ~n.padding
        THEN IF bl # 0 THEN [res |-> 0, out |-> <<>>, n |-> n]
             ELSE [res |-> 1, out |-> <<>>, n |-> n]
        ELSE LET d == DoCipher(n, n.reg,
                               n.buf \o [i \in 1..(bs - bl) |-> bs - bl])
             IN  [res |-> 1, out |-> d.out,
                  n |-> [n EXCEPT !.reg = d.reg, !.buf = <<>>]]

\* EVP_DecryptFinal_ex
EVP_DecryptFinal_ex(n) ==
    LET bs  == EVP_CIPHER_CTX_block_size(n)
        pad == n.final[bs]
    IN  IF ~n.padding
        THEN IF Len(n.buf) # 0 THEN [res |-> 0, out |-> <<>>, n |-> n]
             ELSE [res |-> 1, out |-> <<>>, n |-> n]
        ELSE IF bs = 1 THEN [res |-> 1, out |-> <<>>, n |-> n]
        ELSE IF Len(n.buf) # 0 \/ ~n.final_used
        THEN [res |-> 0, out |-> <<>>, n |-> n]
        ELSE IF pad = 0 \/ pad > bs
                 \/ \E i \in (bs - pad + 1)..bs : n.final[i] # pad
        THEN [res |-> 0, out |-> <<>>, n |-> n]
        ELSE [res |-> 1, out |-> SubSeq(n.final, 1, bs - pad), n |-> n]

(***************************************************************************)
(* Ciphers: contexts                                                       *)
(***************************************************************************)
\* the mode classes that provide interfaces.ModeWithInitializationVector
ModeWithInitializationVector == {"CBC", "OFB", "CFB"}

\* the mode classes that provide interfaces.ModeWithNonce
ModeWithNonce == {"CTR"}

\* _create_ctx without its assert on the engine's answer
create_ctx_unasserted(reg, eng, cipher, mode) ==
    LET adapter == reg[<<cipher.kind, mode.kind>>]
        evp_cipher == GetCipherByName(adapter, eng, cipher, mode)
    IN  IF adapter = "none"
        THEN [err |-> "KeyError", stage |-> "lookup", evp_cipher |-> NULL,
              iv_nonce |-> NULL]
        ELSE [err |-> "none", stage |-> "resolved", evp_cipher |-> evp_cipher,
              iv_nonce |->
                  IF mode.kind \in ModeWithInitializationVector
                  THEN mode.initialization_vector
                  ELSE IF mode.kind \in ModeWithNonce THEN mode.nonce
                  ELSE NULL]

\* _create_ctx passing a zero initialization vector for the mode's own
create_ctx_zero_iv(reg, eng, cipher, mode) ==
    LET adapter == reg[<<cipher.kind, mode.kind>>]
        evp_cipher == GetCipherByName(adapter, eng, cipher, mode)
    IN  IF adapter = "none"
        THEN [err |-> "KeyError", stage |-> "lookup", evp_cipher |-> NULL,
              iv_nonce |-> NULL]
        ELSE IF evp_cipher = NULL
        THEN [err |-> "AssertionError", stage |-> "resolve",
              evp_cipher |-> NULL, iv_nonce |-> NULL]
        ELSE [err |-> "none", stage |-> "resolved", evp_cipher |-> evp_cipher,
              iv_nonce |->
                  IF mode.kind \in ModeWithInitializationVector
                  THEN Zeros(CipherBlock(cipher.kind))
                  ELSE IF mode.kind \in ModeWithNonce THEN mode.nonce
                  ELSE NULL]

\* Ciphers._create_ctx after the context is allocated: the adapter lookup,
\* the engine's answer and the choice of iv_nonce
_create_ctx(reg, eng, cipher, mode) ==
    LET adapter == reg[<<cipher.kind, mode.kind>>]
        evp_cipher == GetCipherByName(adapter, eng, cipher, mode)
    IN  IF adapter = "none"
        THEN [err |-> "KeyError", stage |-> "lookup", evp_cipher |-> NULL,
              iv_nonce |-> NULL]
        ELSE IF evp_cipher = NULL
        THEN [err |-> "AssertionError", stage |-> "resolve",
              evp_cipher |-> NULL, iv_nonce |-> NULL]
        ELSE [err |-> "none", stage |-> "resolved", evp_cipher |-> evp_cipher,
              iv_nonce |->
                  IF mode.kind \in ModeWithInitializationVector
                  THEN mode.initialization_vector
                  ELSE IF mode.kind \in ModeWithNonce THEN mode.nonce
                  ELSE NULL]

\* create_encrypt_ctx leaving the engine's padding on
create_encrypt_ctx_padding(reg, eng, cipher, mode, res) ==
    LET c == _create_ctx(reg, eng, cipher, mode)
    IN  IF c.err # "none"
        THEN [err |-> c.err, stage |-> c.stage, bound |-> FALSE,
              native |-> BlankNative]
        ELSE IF res = 0
        THEN [err |-> "AssertionError", stage |-> "init", bound |-> FALSE,
              native |-> BlankNative]
        ELSE [err |-> "none", stage |-> "created", bound |-> TRUE,
              native |-> EVP_CipherInit_ex(TRUE, cipher, mode, c.iv_nonce)]

\* Ciphers.create_encrypt_ctx; res is what EVP_EncryptInit_ex answers
create_encrypt_ctx(reg, eng, cipher, mode, res) ==
    LET c == _create_ctx(reg, eng, cipher, mode)
    IN  IF c.err # "none"
        THEN [err |-> c.err, stage |-> c.stage, bound |-> FALSE,
              native |-> BlankNative]
        ELSE IF res = 0
        THEN [err |-> "AssertionError", stage |-> "init", bound |-> FALSE,
              native |-> BlankNative]
        ELSE [err |-> "none", stage |-> "created", bound |-> TRUE,
              native |-> EVP_CIPHER_CTX_set_padding(
                             EVP_CipherInit_ex(TRUE, cipher, mode, c.iv_nonce),
                             0)]

\* create_decrypt_ctx leaving the engine's padding on
create_decrypt_ctx_padding(reg, eng, cipher, mode, res) ==
    LET c == _create_ctx(reg, eng, cipher, mode)
    IN  IF c.err # "none"
        THEN [err |-> c.err, stage |-> c.stage, bound |-> FALSE,
              native |-> BlankNative]
        ELSE IF res = 0
        THEN [err |-> "AssertionError", stage |-> "init", bound |-> FALSE,
              native |-> BlankNative]
        ELSE [err |-> "none", stage |-> "created", bound |-> TRUE,
              native |-> EVP_CipherInit_ex(FALSE, cipher, mode, c.iv_nonce)]

\* create_decrypt_ctx initialising the context for encryption
create_decrypt_ctx_encrypting(reg, eng, cipher, mode, res) ==
    LET c == _create_ctx(reg, eng, cipher, mode)
    IN  IF c.err # "none"
        THEN [err |-> c.err, stage |-> c.stage, bound |-> FALSE,
              native |-> BlankNative]
        ELSE IF res = 0
        THEN [err |-> "AssertionError", stage |-> "init", bound |-> FALSE,
              native |-> BlankNative]
        ELSE [err |-> "none", stage |-> "created", bound |-> TRUE,
              native |-> EVP_CIPHER_CTX_set_padding(
                             EVP_CipherInit_ex(TRUE, cipher, mode, c.iv_nonce),
                             0)]

\* Ciphers.create_decrypt_ctx; res is what EVP_DecryptInit_ex answers
create_decrypt_ctx(reg, eng, cipher, mode, res) ==
    LET c == _create_ctx(reg, eng, cipher, mode)
    IN  IF c.err # "none"
        THEN [err |-> c.err, stage |-> c.stage, bound |-> FALSE,
              native |-> BlankNative]
        ELSE IF res = 0
        THEN [err |-> "AssertionError", stage |-> "init", bound |-> FALSE,
              native |-> BlankNative]
        ELSE [err |-> "none", stage |-> "created", bound |-> TRUE,
              native |-> EVP_CIPHER_CTX_set_padding(
                             EVP_CipherInit_ex(FALSE, cipher, mode, c.iv_nonce),
                             0)]

\* a buffer as long as the chunk
UpdateBufLenChunk(datalen, block_size) == datalen

\* the length of the buffer update_*_ctx allocates
UpdateBufLen(datalen, block_size) == datalen + block_size - 1

\* the length of the buffer finalize_*_ctx allocates
FinalBufLen(block_size) == block_size

\* a zero-filled buffer of buflen bytes after the engine wrote out into it
\* (bytes past its end are lost to the overrun)
Written(buflen, out) ==
    [i \in 1..buflen |-> IF i <= Len(out) THEN out[i] ELSE 0]

\* the whole buffer returned
SliceWhole(buf, outlen) == buf

\* self.ffi.buffer(buf)[:outlen[0]]
Slice(buf, outlen) == SubSeq(buf, 1, IF outlen < Len(buf) THEN outlen ELSE Len(buf))

\* Ciphers.update_encrypt_ctx on a context with a cipher bound; fault: the
\* engine reports failure
update_encrypt_ctx(n, data, fault) ==
    LET block_size == EVP_CIPHER_CTX_block_size(n)
        buflen == UpdateBufLen(Len(data), block_size)
        u == EVP_EncryptUpdate(n, data)
    IN  IF fault
        THEN [err |-> "AssertionError", ret |-> <<>>, outlen |-> 0,
              buflen |-> buflen, n |-> n]
        ELSE [err |-> "none",
              ret |-> Slice(Written(buflen, u.out), Len(u.out)),
              outlen |-> Len(u.out), buflen |-> buflen, n |-> u.n]

\* Ciphers.update_decrypt_ctx
update_decrypt_ctx(n, data, fault) ==
    LET block_size == EVP_CIPHER_CTX_block_size(n)
        buflen == UpdateBufLen(Len(data), block_size)
        u == EVP_DecryptUpdate(n, data)
    IN  IF fault
        THEN [err |-> "AssertionError", ret |-> <<>>, outlen |-> 0,
              buflen |-> buflen, n |-> n]
        ELSE [err |-> "none",
              ret |-> Slice(Written(buflen, u.out), Len(u.out)),
              outlen |-> Len(u.out), buflen |-> buflen, n |-> u.n]

\* the native handle of a context: EVP_CIPHER_CTX_cleanup unbinds the cipher
\* and leaves the handle allocated
EVP_CIPHER_CTX_cleanup(h) ==
    [h EXCEPT !.bound = FALSE, !.native = BlankNative, !.cleanups = @ + 1]

\* EVP_CIPHER_CTX_free, the finalizer ffi.gc attaches in _create_ctx
EVP_CIPHER_CTX_free(h) ==
    [h EXCEPT !.handle = "freed", !.bound = FALSE, !.native = BlankNative,
              !.frees = @ + 1]

\* finalize freeing the handle itself
finalize_release_free(h) == EVP_CIPHER_CTX_free(h)

\* what finalize_*_ctx does to the handle once the engine's final call
\* succeeded
finalize_release(h) == EVP_CIPHER_CTX_cleanup(h)

\* finalize_encrypt_ctx returning its whole buffer
finalize_encrypt_ctx_unsliced(h) ==
    LET block_size == EVP_CIPHER_CTX_block_size(h.native)
        buflen == FinalBufLen(block_size)
        f == EVP_EncryptFinal_ex(h.native)
    IN  IF f.res = 0
        THEN [err |-> "AssertionError", ret |-> <<>>, outlen |-> 0,
              buflen |-> buflen, h |-> h]
        ELSE [err |-> "none", ret |-> Written(buflen, f.out),
              outlen |-> Len(f.out), buflen |-> buflen,
              h |-> finalize_release([h EXCEPT !.native = f.n])]

\* Ciphers.finalize_encrypt_ctx on a context with a cipher bound
finalize_encrypt_ctx(h) ==
    LET block_size == EVP_CIPHER_CTX_block_size(h.native)
        buflen == FinalBufLen(block_size)
        f == EVP_EncryptFinal_ex(h.native)
    IN  IF f.res = 0
        THEN [err |-> "AssertionError", ret |-> <<>>, outlen |-> 0,
              buflen |-> buflen, h |-> h]
        ELSE [err |-> "none",
              ret |-> Slice(Written(buflen, f.out), Len(f.out)),
              outlen |-> Len(f.out), buflen |-> buflen,
              h |-> finalize_release([h EXCEPT !.native = f.n])]

\* Ciphers.finalize_decrypt_ctx
finalize_decrypt_ctx(h) ==
    LET block_size == EVP_CIPHER_CTX_block_size(h.native)
        buflen == FinalBufLen(block_size)
        f == EVP_DecryptFinal_ex(h.native)
    IN  IF f.res = 0
        THEN [err |-> "AssertionError", ret |-> <<>>, outlen |-> 0,
              buflen |-> buflen, h |-> h]
        ELSE [err |-> "none",
              ret |-> Slice(Written(buflen, f.out), Len(f.out)),
              outlen |-> Len(f.out), buflen |-> buflen,
              h |-> finalize_release([h EXCEPT !.native = f.n])]

(***************************************************************************)
(* The engine's digests and Hashes                                         *)
(***************************************************************************)
\* the scaled-down length of an md5 digest; a sha1 digest is one byte longer
DigestUnit == 2

\* the most bytes fed to one digest context
MaxDigestData == 2

\* the digests OpenSSL_add_all_algorithms makes known to the engine
DigestNames == {"md5", "sha1"}

\* the names of the hash objects a caller passes; the engine has no sha3
HashNames == DigestNames \cup {"sha3"}

\* EVP_get_digestbyname
EVP_get_digestbyname(name) == IF name \in DigestNames THEN name ELSE NULL

\* EVP_MD_size
EVP_MD_size(evp_md) == IF evp_md = "md5" THEN DigestUnit ELSE DigestUnit + 1

\* the stand-in compression of one byte into the digest state
MdStep(st, b) ==
    [i \in 1..Len(st) |->
        (2 * st[(i % Len(st)) + 1] + st[i] + b + i) % ByteMod]

\* ctx->digest->update: the bytes are compressed in order
RECURSIVE MdFold(_, _)
MdFold(st, data) ==
    IF data = <<>> THEN st ELSE MdFold(MdStep(st, Head(data)), Tail(data))

\* ctx->digest->init: the initial state of the algorithm
MdInit(evp_md) ==
    [i \in 1..EVP_MD_size(evp_md) |-> IF evp_md = "md5" THEN i ELSE 2 * i]

\* ctx->digest->final: the padding byte is compressed and the state is the
\* digest
MdFinal(st) == MdStep(st, 128)

\* the addresses of the md_data blocks the engine allocates
MdAddrs == {1, 2}

FreeData == [used |-> FALSE, st |-> <<>>]

\* OPENSSL_malloc: a block that is not in use
Malloc(heap) == CHOOSE a \in MdAddrs : ~heap[a].used

\* OPENSSL_free
Free(heap, a) == IF a \in MdAddrs THEN [heap EXCEPT ![a] = FreeData] ELSE heap

\* an EVP_MD_CTX that does not exist yet
NoMd ==
    [handle |-> "none", ref |-> FALSE, gc |-> FALSE, digest |-> NULL,
     data |-> 0, fed |-> <<>>, copied |-> FALSE, prefixed |-> FALSE,
     cleanups |-> 0, destroys |-> 0]

\* EVP_MD_CTX_create with the finalizer of ffi.gc attached
EVP_MD_CTX_create ==
    [NoMd EXCEPT !.handle = "allocated", !.gc = TRUE]

\* EVP_DigestInit_ex: binds the digest and allocates its state
EVP_DigestInit_ex(heap, c, evp_md) ==
    [c |-> [c EXCEPT !.digest = evp_md, !.data = Malloc(heap)],
     heap |-> [heap EXCEPT ![Malloc(heap)] =
                               [used |-> TRUE, st |-> MdInit(evp_md)]]]

\* EVP_DigestUpdate; reading a freed md_data block kills the process
EVP_DigestUpdate(heap, c, data) ==
    IF c.data \notin MdAddrs \/ ~heap[c.data].used
    THEN [res |-> "SIGSEGV", heap |-> heap]
    ELSE [res |-> 1, heap |-> [heap EXCEPT ![c.data].st = MdFold(@, data)]]

\* EVP_DigestFinal_ex(ctx, md, NULL): writes EVP_MD_size bytes to md
EVP_DigestFinal_ex(heap, c) ==
    IF c.data \notin MdAddrs \/ ~heap[c.data].used
    THEN [res |-> "SIGSEGV", out |-> <<>>]
    ELSE [res |-> 1, out |-> MdFinal(heap[c.data].st)]

\* EVP_MD_CTX_cleanup: frees md_data and zeroes the context
EVP_MD_CTX_cleanup(heap, c) ==
    [c |-> [c EXCEPT !.digest = NULL, !.data = 0, !.cleanups = @ + 1],
     heap |-> Free(heap, c.data)]

\* EVP_MD_CTX_destroy, the finalizer: EVP_MD_CTX_cleanup, then the handle is
\* freed
EVP_MD_CTX_destroy(heap, c) ==
    [c |-> [c EXCEPT !.handle = "freed", !.digest = NULL, !.data = 0,
                     !.gc = FALSE, !.destroys = @ + 1],
     heap |-> Free(heap, c.data)]

\* EVP_MD_CTX_copy_ex sharing the md_data block of in
EVP_MD_CTX_copy_shallow(heap, out, in) ==
    IF in.digest = NULL THEN [res |-> 0, c |-> out, heap |-> heap]
    ELSE [res |-> 1,
          c |-> [out EXCEPT !.digest = in.digest, !.data = in.data],
          heap |-> heap]

\* EVP_MD_CTX_copy_ex(out, in): fails on a context with no digest bound;
\* otherwise out gets the digest of in and a block of its own holding a copy
\* of the state of in
EVP_MD_CTX_copy_ex(heap, out, in) ==
    IF in.digest = NULL THEN [res |-> 0, c |-> out, heap |-> heap]
    ELSE [res |-> 1,
          c |-> [out EXCEPT !.digest = in.digest, !.data = Malloc(heap)],
          heap |-> [heap EXCEPT ![Malloc(heap)] = heap[in.data]]]

\* Hashes.supported
Hashes_supported(name) ==
    [err |-> "none", ret |-> NULL # EVP_get_digestbyname(name)]

\* Hashes.create_ctx without its assert on the engine's answer: the context
\* is initialised with whatever EVP_get_digestbyname returned
Hashes_create_ctx_unasserted(heap, name, res) ==
    LET ctx0 == EVP_MD_CTX_create
        evp_md == EVP_get_digestbyname(name)
    IN  IF res = 0
        THEN [err |-> "AssertionError", stage |-> "init", c |-> ctx0,
              heap |-> heap]
        ELSE [err |-> "none", stage |-> "created",
              c |-> [ctx0 EXCEPT !.ref = TRUE, !.digest = evp_md],
              heap |-> heap]

\* Hashes.create_ctx; res is what EVP_DigestInit_ex answers
Hashes_create_ctx(heap, name, res) ==
    LET ctx0 == EVP_MD_CTX_create
        evp_md == EVP_get_digestbyname(name)
        i == EVP_DigestInit_ex(heap, ctx0, evp_md)
    IN  IF evp_md = NULL
        THEN [err |-> "AssertionError", stage |-> "resolve", c |-> ctx0,
              heap |-> heap]
        ELSE IF res = 0
        THEN [err |-> "AssertionError", stage |-> "init", c |-> ctx0,
              heap |-> heap]
        ELSE [err |-> "none", stage |-> "created",
              c |-> [i.c EXCEPT !.ref = TRUE], heap |-> i.heap]

\* Hashes.update_ctx; the engine's update of md5 and sha1 always answers 1
update_ctx(heap, c, data) ==
    LET u == EVP_DigestUpdate(heap, c, data)
    IN  IF u.res = 1 THEN [err |-> "none", heap |-> u.heap]
        ELSE [err |-> u.res, heap |-> heap]

\* Hashes.finalize_ctx: the engine writes EVP_MD_size bytes into the buffer
\* of digest_size bytes (past its end when the buffer is shorter), the
\* context is cleaned up and the first digest_size bytes of the buffer are
\* returned
finalize_ctx(heap, c, digest_size) ==
    LET f == EVP_DigestFinal_ex(heap, c)
        buf == Written(digest_size, f.out)
        k == EVP_MD_CTX_cleanup(heap, c)
    IN  IF f.res # 1
        THEN [err |-> f.res, ret |-> <<>>, overrun |-> FALSE, c |-> c,
              heap |-> heap]
        ELSE [err |-> "none", ret |-> Slice(buf, digest_size),
              overrun |-> Len(f.out) > digest_size, c |-> k.c,
              heap |-> k.heap]

\* Hashes.copy_ctx
copy_ctx(heap, c) ==
    LET copied_ctx == EVP_MD_CTX_create
        r == EVP_MD_CTX_copy_ex(heap, copied_ctx, c)
    IN  IF r.res = 0
        THEN [err |-> "AssertionError", c |-> copied_ctx, heap |-> heap]
        ELSE [err |-> "none", c |-> [r.c EXCEPT !.ref = TRUE],
              heap |-> r.heap]

\* the two digest contexts of a run: one created, one copied from it
Slots == {"C", "C2"}

Other(s) == IF s = "C" THEN "C2" ELSE "C"

\* the digest sizes a caller passes to finalize_ctx for an algorithm
DigestSizes(evp_md) ==
    {EVP_MD_size(evp_md) - 1, EVP_MD_size(evp_md), EVP_MD_size(evp_md) + 1}

\* what a write past the end of the buffer of finalize_ctx can do: the heap
\* is corrupted and the call returns, or the process dies
OverrunOutcomes == {"none", "SIGSEGV"}

NoDigests ==
    [heap |-> [a \in MdAddrs |-> FreeData], ctxs |-> [s \in Slots |-> NoMd]]

(***************************************************************************)
(* Inputs                                                                  *)
(***************************************************************************)
\* the threads that call register_cipher_adapter on the one registry
Threads == {"T1", "T2"}

\* a thread that has not called register_cipher_adapter
NoThread ==
    [pc |-> "idle", cipher_cls |-> "-", mode_cls |-> "-", adapter |-> "-",
     err |-> "none"]

\* AES(key), Camellia(key), TripleDES(key); the stand-in transform uses the
\* key's length as its key byte
CipherDescs ==
    UNION {[kind : {k}, keylen : KeyLens(k)] : k \in CipherKinds}

\* the initialization vectors and nonces a caller passes for a cipher kind
IVs(kind) ==
    {Zeros(CipherBlock(kind)),
     [i \in 1..CipherBlock(kind) |-> IF i = 1 THEN 1 ELSE 0]}

\* CBC(iv), OFB(iv), CFB(iv), CTR(nonce), ECB()
ModeDescs(kind) ==
    [kind : {"CBC", "OFB", "CFB"}, initialization_vector : IVs(kind)]
    \cup [kind : {"CTR"}, nonce : IVs(kind)]
    \cup [kind : {"ECB"}]

\* get_iv_or_nonce of the CBC and ECB classes of modes.py; the null of ECB
\* is the engine's NULL
get_iv_or_nonce(mode) ==
    IF mode.kind = "CBC" THEN mode.initialization_vector ELSE NULL

\* the chunks of at most n bytes
Chunks(n) == UNION {[1..k -> InBytes] : k \in 0..n}

\* what the engine can do with a context whose cipher was unbound by
\* EVP_CIPHER_CTX_cleanup: EVP_CIPHER_CTX_block_size reads through the null
\* cipher pointer (the process dies), or the engine reports failure
ReuseOutcomes == {"SIGSEGV", "AssertionError"}

(***************************************************************************)
(* State                                                                   *)
(***************************************************************************)
NoCtx ==
    [handle |-> "none", bound |-> FALSE, native |-> BlankNative,
     cleanups |-> 0, frees |-> 0, gc |-> FALSE, ref |-> FALSE,
     enc |-> TRUE, cipher |-> [kind |-> "-", keylen |-> 0],
     mode |-> [kind |-> "-"], fed |-> <<>>, out |-> <<>>,
     midsplit |-> FALSE, finalized |-> FALSE]

NoLast ==
    [op |-> "init", err |-> "none", stage |-> "-", cipher |-> "-",
     mode |-> "-", key_size |-> 0, adapter |-> "-", name |-> "-",
     ret |-> "-", outlen |-> 0, buflen |-> 0, buffered |-> 0, bs |-> 0,
     datalen |-> 0, reuse |-> FALSE, slot |-> "-", overrun |-> FALSE]

Alive == last.err # "SIGSEGV"

\* Backend.__init__: the engine is linked, Ciphers.__init__ fills the registry
Init ==
    /\ engine \in EngineBuilds
    /\ registry = _register_default_ciphers.reg
    /\ dyn = {}
    /\ ctx = NoCtx
    /\ md = NoDigests
    /\ thr = [t \in Threads |-> NoThread]
    /\ last = [NoLast EXCEPT !.err = _register_default_ciphers.err]

(***************************************************************************)
(* Operations.  One context is outstanding at a time, and the registry is  *)
(* registered to and queried between contexts: no operation on a context   *)
(* reads the registry once the context is created.                         *)
(***************************************************************************)
Register ==
    \E c \in CipherKinds, m \in ModeKinds, a \in Adapters :
        LET r == register_cipher_adapter(registry, c, m, a)
        IN  /\ Alive
            /\ ~ctx.gc
            /\ registry' = r.reg
            /\ dyn' = IF r.err = "none" THEN dyn \cup {<<c, m, a>>} ELSE dyn
            /\ last' = [NoLast EXCEPT !.op = "register", !.err = r.err,
                                      !.cipher = c, !.mode = m, !.adapter = a]
            /\ UNCHANGED <<engine, ctx, md, thr>>

Supported ==
    \E cipher \in CipherDescs :
      \E mode \in ModeDescs(cipher.kind) :
        LET r == supported(registry, engine, cipher, mode)
            a == registry[<<cipher.kind, mode.kind>>]
        IN  /\ Alive
            /\ ~ctx.gc
            /\ last' = [NoLast EXCEPT
                          !.op = "supported", !.err = r.err, !.ret = r.ret,
                          !.cipher = cipher.kind, !.mode = mode.kind,
                          !.key_size = key_size(cipher), !.adapter = a,
                          !.name = IF a = "none" THEN "-"
                                   ELSE FormatName(a, cipher, mode)]
            /\ UNCHANGED <<engine, registry, dyn, ctx, md, thr>>

\* the context after create_*_ctx ran: allocated by EVP_CIPHER_CTX_new with
\* the finalizer attached; the caller holds it only if it was returned
Created(r, enc, cipher, mode) ==
    [NoCtx EXCEPT !.handle = "allocated", !.gc = TRUE,
                  !.ref = (r.err = "none"), !.bound = r.bound,
                  !.native = r.native, !.enc = enc, !.cipher = cipher,
                  !.mode = mode]

CreateResult(r, cipher, mode) ==
    [NoLast EXCEPT !.op = "create", !.err = r.err, !.stage = r.stage,
                   !.cipher = cipher.kind, !.mode = mode.kind,
                   !.key_size = key_size(cipher),
                   !.adapter = registry[<<cipher.kind, mode.kind>>],
                   !.name = IF registry[<<cipher.kind, mode.kind>>] = "none"
                            THEN "-"
                            ELSE FormatName(registry[<<cipher.kind, mode.kind>>],
                                            cipher, mode)]

CreateEncryptCtx ==
    \E cipher \in CipherDescs, res \in {0, 1} :
      \E mode \in ModeDescs(cipher.kind) :
        LET r == create_encrypt_ctx(registry, engine, cipher, mode, res)
        IN  /\ Alive
            /\ ~ctx.gc /\ ~ctx.ref
            /\ ctx' = Created(r, TRUE, cipher, mode)
            /\ last' = CreateResult(r, cipher, mode)
            /\ UNCHANGED <<engine, registry, dyn, md, thr>>

CreateDecryptCtx ==
    \E cipher \in CipherDescs, res \in {0, 1} :
      \E mode \in ModeDescs(cipher.kind) :
        LET r == create_decrypt_ctx(registry, engine, cipher, mode, res)
        IN  /\ Alive
            /\ ~ctx.gc /\ ~ctx.ref
            /\ ctx' = Created(r, FALSE, cipher, mode)
            /\ last' = CreateResult(r, cipher, mode)
            /\ UNCHANGED <<engine, registry, dyn, md, thr>>

\* the context and the outcome after update_*_ctx answered r to data
Updated(r, data) ==
    IF r.err # "none" THEN [ctx EXCEPT !.native = r.n]
    ELSE [ctx EXCEPT !.native = r.n, !.fed = @ \o data, !.out = @ \o r.ret,
                     !.midsplit = @ \/ (Len(r.n.buf) > 0)]

UpdateResult(r, data) ==
    [NoLast EXCEPT !.op = "update", !.err = r.err, !.ret = r.ret,
                   !.outlen = r.outlen, !.buflen = r.buflen,
                   !.buffered = Len(ctx.native.buf),
                   !.bs = EVP_CIPHER_CTX_block_size(ctx.native),
                   !.datalen = Len(data)]

\* an update or finalize on a context that finalize has cleaned up
Reused(op, outcome) ==
    [NoLast EXCEPT !.op = op, !.err = outcome, !.reuse = TRUE]

UpdateEncryptCtx ==
    /\ Alive
    /\ ctx.ref /\ ctx.enc
    /\ IF ctx.bound
       THEN \E data \in Chunks(MaxData - Len(ctx.fed)), fault \in BOOLEAN :
                LET r == update_encrypt_ctx(ctx.native, data, fault)
                IN  /\ ctx' = Updated(r, data)
                    /\ last' = UpdateResult(r, data)
       ELSE \E outcome \in ReuseOutcomes :
                /\ ctx' = ctx
                /\ last' = Reused("update", outcome)
    /\ UNCHANGED <<engine, registry, dyn, md, thr>>

UpdateDecryptCtx ==
    /\ Alive
    /\ ctx.ref /\ ~ctx.enc
    /\ IF ctx.bound
       THEN \E data \in Chunks(MaxData - Len(ctx.fed)), fault \in BOOLEAN :
                LET r == update_decrypt_ctx(ctx.native, data, fault)
                IN  /\ ctx' = Updated(r, data)
                    /\ last' = UpdateResult(r, data)
       ELSE \E outcome \in ReuseOutcomes :
                /\ ctx' = ctx
                /\ last' = Reused("update", outcome)
    /\ UNCHANGED <<engine, registry, dyn, md, thr>>

Finalized(r) ==
    IF r.err # "none" THEN r.h
    ELSE [r.h EXCEPT !.out = @ \o r.ret, !.finalized = TRUE]

FinalizeResult(r) ==
    [NoLast EXCEPT !.op = "finalize", !.err = r.err, !.ret = r.ret,
                   !.outlen = r.outlen, !.buflen = r.buflen,
                   !.buffered = Len(ctx.native.buf),
                   !.bs = EVP_CIPHER_CTX_block_size(ctx.native)]

FinalizeEncryptCtx ==
    /\ Alive
    /\ ctx.ref /\ ctx.enc
    /\ IF ctx.bound
       THEN LET r == finalize_encrypt_ctx(ctx)
            IN  /\ ctx' = Finalized(r)
                /\ last' = FinalizeResult(r)
       ELSE \E outcome \in ReuseOutcomes :
                /\ ctx' = ctx
                /\ last' = Reused("finalize", outcome)
    /\ UNCHANGED <<engine, registry, dyn, md, thr>>

FinalizeDecryptCtx ==
    /\ Alive
    /\ ctx.ref /\ ~ctx.enc
    /\ IF ctx.bound
       THEN LET r == finalize_decrypt_ctx(ctx)
            IN  /\ ctx' = Finalized(r)
                /\ last' = FinalizeResult(r)
       ELSE \E outcome \in ReuseOutcomes :
                /\ ctx' = ctx
                /\ last' = Reused("finalize", outcome)
    /\ UNCHANGED <<engine, registry, dyn, md, thr>>

\* the caller lets go of the context
Drop ==
    /\ Alive
    /\ ctx.ref
    /\ ctx' = [ctx EXCEPT !.ref = FALSE]
    /\ last' = [NoLast EXCEPT !.op = "drop"]
    /\ UNCHANGED <<engine, registry, dyn, md, thr>>

\* the collector runs the finalizer of an unreachable context
Collect ==
    /\ Alive
    /\ ctx.gc /\ ~ctx.ref
    /\ ctx' = [NoCtx EXCEPT !.handle = EVP_CIPHER_CTX_free(ctx).handle,
                           !.frees = EVP_CIPHER_CTX_free(ctx).frees,
                           !.cleanups = ctx.cleanups]
    /\ last' = [NoLast EXCEPT !.op = "gc"]
    /\ UNCHANGED <<engine, registry, dyn, md, thr>>

\* the registry and context creation
Next ==
    \/ Register
    \/ Supported
    \/ CreateEncryptCtx
    \/ CreateDecryptCtx
    \/ Drop
    \/ Collect

Spec == Init /\ [][Next]_vars

\* the life of a context under the registry as constructed
NextStream ==
    \/ CreateEncryptCtx
    \/ CreateDecryptCtx
    \/ UpdateEncryptCtx
    \/ UpdateDecryptCtx
    \/ FinalizeEncryptCtx
    \/ FinalizeDecryptCtx
    \/ Drop
    \/ Collect

SpecStream == Init /\ [][NextStream]_vars

(***************************************************************************)
(* Operations of Hashes.  A context is created in slot C and copied to     *)
(* slot C2, one such pair at a time; the caller updates and finalizes a    *)
(* context it holds and on which finalize_ctx has not run.                 *)
(***************************************************************************)
HashSupported ==
    \E name \in HashNames :
        LET r == Hashes_supported(name)
        IN  /\ Alive
            /\ \A s \in Slots : ~md.ctxs[s].gc
            /\ last' = [NoLast EXCEPT !.op = "md_supported", !.err = r.err,
                                      !.ret = r.ret, !.name = name]
            /\ UNCHANGED <<engine, registry, dyn, ctx, md, thr>>

HashCreateCtx ==
    \E name \in HashNames, res \in {0, 1} :
        LET r == Hashes_create_ctx(md.heap, name, res)
        IN  /\ Alive
            /\ \A s \in Slots : ~md.ctxs[s].gc /\ ~md.ctxs[s].ref
            /\ md' = [heap |-> r.heap, ctxs |-> [md.ctxs EXCEPT !["C"] = r.c]]
            /\ last' = [NoLast EXCEPT !.op = "md_create", !.err = r.err,
                                      !.stage = r.stage, !.name = name,
                                      !.slot = "C"]
            /\ UNCHANGED <<engine, registry, dyn, ctx, thr>>

HashUpdateCtx ==
    \E s \in Slots :
      \E data \in Chunks(MaxDigestData - Len(md.ctxs[s].fed)) :
        LET c == md.ctxs[s]
            r == update_ctx(md.heap, c, data)
        IN  /\ Alive
            /\ c.ref /\ c.digest # NULL
            /\ md' = [heap |-> r.heap,
                      ctxs |-> [md.ctxs EXCEPT ![s].fed =
                                    IF r.err = "none" THEN @ \o data ELSE @]]
            /\ last' = [NoLast EXCEPT !.op = "md_update", !.err = r.err,
                                      !.name = c.digest, !.slot = s,
                                      !.datalen = Len(data)]
            /\ UNCHANGED <<engine, registry, dyn, ctx, thr>>

HashFinalizeCtx ==
    \E s \in Slots :
      /\ Alive
      /\ md.ctxs[s].ref /\ md.ctxs[s].digest # NULL
      /\ \E digest_size \in DigestSizes(md.ctxs[s].digest) :
           LET c == md.ctxs[s]
               r == finalize_ctx(md.heap, c, digest_size)
           IN  \E outcome \in (IF r.overrun THEN OverrunOutcomes ELSE {r.err}) :
                   /\ md' = IF outcome # "none" THEN md
                            ELSE [heap |-> r.heap,
                                  ctxs |-> [md.ctxs EXCEPT ![s] = r.c]]
                   /\ last' = [NoLast EXCEPT
                                 !.op = "md_finalize", !.err = outcome,
                                 !.ret = IF outcome = "none" THEN r.ret ELSE "-",
                                 !.name = c.digest, !.slot = s,
                                 !.datalen = digest_size,
                                 !.bs = EVP_MD_size(c.digest),
                                 !.overrun = r.overrun]
      /\ UNCHANGED <<engine, registry, dyn, ctx, thr>>

HashCopyCtx ==
    LET c == md.ctxs["C"]
        r == copy_ctx(md.heap, c)
    IN  /\ Alive
        /\ c.ref
        /\ ~md.ctxs["C2"].gc /\ ~md.ctxs["C2"].ref
        /\ md' = [heap |-> r.heap,
                  ctxs |-> [md.ctxs EXCEPT !["C2"] =
                               [r.c EXCEPT !.fed = c.fed, !.copied = TRUE,
                                            !.prefixed = (c.fed # <<>>)]]]
        /\ last' = [NoLast EXCEPT !.op = "md_copy", !.err = r.err,
                                  !.name = c.digest, !.slot = "C2"]
        /\ UNCHANGED <<engine, registry, dyn, ctx, thr>>

\* the caller lets go of a digest context
HashDrop ==
    \E s \in Slots :
        /\ Alive
        /\ md.ctxs[s].ref
        /\ md' = [md EXCEPT !.ctxs[s].ref = FALSE]
        /\ last' = [NoLast EXCEPT !.op = "md_drop", !.slot = s]
        /\ UNCHANGED <<engine, registry, dyn, ctx, thr>>

\* the collector runs the finalizer of an unreachable digest context
HashCollect ==
    \E s \in Slots :
        LET d == EVP_MD_CTX_destroy(md.heap, md.ctxs[s])
        IN  /\ Alive
            /\ md.ctxs[s].gc /\ ~md.ctxs[s].ref
            /\ md' = [heap |-> d.heap,
                      ctxs |-> [md.ctxs EXCEPT ![s] =
                                   [NoMd EXCEPT !.handle = d.c.handle,
                                                !.destroys = d.c.destroys]]]
            /\ last' = [NoLast EXCEPT !.op = "md_gc", !.slot = s]
            /\ UNCHANGED <<engine, registry, dyn, ctx, thr>>

\* the life of the digest contexts
NextDigest ==
    \/ HashSupported
    \/ HashCreateCtx
    \/ HashUpdateCtx
    \/ HashFinalizeCtx
    \/ HashCopyCtx
    \/ HashDrop
    \/ HashCollect

SpecDigest == Init /\ [][NextDigest]_vars

(***************************************************************************)
(* register_cipher_adapter called from two threads.  The interpreter can   *)
(* switch threads between the membership test and the store, which are     *)
(* separate steps; each thread makes one call.                             *)
(***************************************************************************)
\* thread t enters register_cipher_adapter
ThreadCall(t) ==
    \E c \in CipherKinds, m \in ModeKinds, a \in Adapters :
        /\ thr[t].pc = "idle"
        /\ thr' = [thr EXCEPT ![t] = [pc |-> "test", cipher_cls |-> c,
                                      mode_cls |-> m, adapter |-> a,
                                      err |-> "none"]]
        /\ UNCHANGED <<engine, registry, dyn, ctx, md, last>>

\* the membership test: the duplicate-registration ValueError is raised, or
\* the thread goes on to the store
ThreadTest(t) ==
    /\ thr[t].pc = "test"
    /\ thr' = IF _cipher_registry_contains(registry, thr[t].cipher_cls,
                                           thr[t].mode_cls)
              THEN [thr EXCEPT ![t].pc = "raised", ![t].err = "ValueError"]
              ELSE [thr EXCEPT ![t].pc = "store"]
    /\ UNCHANGED <<engine, registry, dyn, ctx, md, last>>

\* the store, after which the call returns
ThreadStore(t) ==
    /\ thr[t].pc = "store"
    /\ registry' = _cipher_registry_setitem(registry, thr[t].cipher_cls,
                                            thr[t].mode_cls, thr[t].adapter)
    /\ dyn' = dyn \cup {<<thr[t].cipher_cls, thr[t].mode_cls, thr[t].adapter>>}
    /\ thr' = [thr EXCEPT ![t].pc = "returned"]
    /\ UNCHANGED <<engine, ctx, md, last>>

NextThreads ==
    \/ \E t \in Threads : ThreadCall(t)
    \/ \E t \in Threads : ThreadTest(t)
    \/ \E t \in Threads : ThreadStore(t)

SpecThreads == Init /\ [][NextThreads]_vars

(***************************************************************************)
(* Properties                                                              *)
(***************************************************************************)
LastPair == <<last.cipher, last.mode>>

\* the pairs the specification lists for the default population
DefaultPairs ==
    {<<"AES", "CBC">>, <<"AES", "CTR">>, <<"AES", "ECB">>, <<"AES", "OFB">>,
     <<"AES", "CFB">>, <<"Camellia", "CBC">>, <<"Camellia", "CTR">>,
     <<"Camellia", "ECB">>, <<"Camellia", "OFB">>, <<"Camellia", "CFB">>,
     <<"TripleDES", "CBC">>, <<"TripleDES", "CFB">>, <<"TripleDES", "OFB">>}

DynPairs == {<<x[1], x[2]>> : x \in dyn}

\* C1: a register_cipher_adapter call for a pair that is already registered
\* raises the duplicate-registration ValueError and leaves the registry as
\* it was; no step changes the adapter of a registered pair, and supported
\* and context creation resolve through that adapter.
C1_RegistryUniqueness ==
    [][/\ \A p \in Pairs : registry[p] # "none" => registry'[p] = registry[p]
       /\ (last'.op = "register"
             /\ registry[<<last'.cipher, last'.mode>>] # "none")
          => (last'.err = "ValueError" /\ registry' = registry)
       /\ (last'.op \in {"supported", "create"}
             /\ registry[<<last'.cipher, last'.mode>>] # "none")
          => last'.adapter = registry[<<last'.cipher, last'.mode>>]]_vars

\* a second registration with another adapter has just been refused, and the
\* first adapter is still the registered one
C1_Witness ==
    /\ last.op = "register" /\ last.err = "ValueError"
    /\ LastPair \in DynPairs
    /\ registry[LastPair] # last.adapter
    /\ <<last.cipher, last.mode, registry[LastPair]>> \in dyn

\* C2: supported never raises; it answers False for a pair with no adapter,
\* False for a registered pair whose built name the engine does not know, and
\* True only when the engine resolves the name.
C2_SupportedNeverRaises ==
    last.op = "supported" =>
        /\ last.err = "none"
        /\ last.ret \in BOOLEAN
        /\ registry[LastPair] = "none" => last.ret = FALSE
        /\ (registry[LastPair] # "none" /\ last.name \notin engine)
           => last.ret = FALSE
        /\ last.ret = TRUE
           => (registry[LastPair] # "none" /\ last.name \in engine)

\* supported has answered False for a registered pair the engine lacks
C2_Witness ==
    /\ last.op = "supported" /\ last.ret = FALSE
    /\ registry[LastPair] # "none"
    /\ last.name \notin engine

\* C3 as stated: a context creation that fails for lack of an adapter or
\* because the engine does not know the name fails with UnsupportedCombination.
C3_UnsupportedCombination ==
    (last.op = "create" /\ last.stage \in {"lookup", "resolve"})
    => (last.err = "UnsupportedCombination" /\ ~ctx.ref)

\* C3 amended: context creation for a pair with no adapter fails with
\* KeyError, for a registered pair whose name the engine does not know with
\* AssertionError; in neither case is a context returned, and a context is
\* returned only for a registered pair whose name the engine knows.
C3_ResolutionFailures ==
    last.op = "create" =>
        /\ registry[LastPair] = "none"
           => (last.err = "KeyError" /\ last.stage = "lookup"
                 /\ ~ctx.ref /\ ~ctx.bound)
        /\ (registry[LastPair] # "none" /\ last.name \notin engine)
           => (last.err = "AssertionError" /\ last.stage = "resolve"
                 /\ ~ctx.ref /\ ~ctx.bound)
        /\ last.err = "none"
           => (registry[LastPair] # "none" /\ last.name \in engine
                 /\ ctx.ref /\ ctx.bound)

\* a creation has failed because the engine does not know the built name
C3_Witness ==
    /\ last.op = "create" /\ last.stage = "resolve"
    /\ last.err = "AssertionError"
    /\ registry[LastPair] # "none"
    /\ ~ctx.ref

\* the operation that has just run ended the use of its context: a creation
\* or an update failed, or finalize ran
PathEnded ==
    /\ ~last.reuse
    /\ \/ last.op \in {"create", "update"} /\ last.err # "none"
       \/ last.op = "finalize"

C5_TerminalAfterFinalize ==
    last.reuse => (last.err \notin {"none", "SIGSEGV"} /\ last.ret = "-")

\* C6: the engine never produces more bytes in one update than the buffer of
\* len(chunk) + block_size - 1 bytes holds.
C6_UpdateFitsBuffer ==
    (last.op = "update" /\ ~last.reuse) =>
        /\ last.buflen = last.datalen + last.bs - 1
        /\ last.outlen <= last.buflen

\* an update on a full remainder of block_size - 1 bytes has filled the
\* buffer to its last byte
C6_Witness ==
    /\ last.op = "update" /\ last.err = "none"
    /\ last.bs > 1 /\ last.buffered = last.bs - 1
    /\ last.outlen > 0 /\ last.outlen = last.buflen

\* update(P), finalize() on a fresh context created with the cipher and mode
\* of c: the exception of finalize and the concatenated output
Bulk(c, P) ==
    LET fresh == IF c.enc
                 THEN create_encrypt_ctx(registry, engine, c.cipher, c.mode, 1)
                 ELSE create_decrypt_ctx(registry, engine, c.cipher, c.mode, 1)
        u == IF c.enc THEN update_encrypt_ctx(fresh.native, P, FALSE)
                      ELSE update_decrypt_ctx(fresh.native, P, FALSE)
        h == [NoCtx EXCEPT !.handle = "allocated", !.bound = TRUE,
                           !.native = u.n]
        f == IF c.enc THEN finalize_encrypt_ctx(h) ELSE finalize_decrypt_ctx(h)
    IN  [err |-> f.err, out |-> u.ret \o f.ret]

\* C7: the outputs of update(c1), ..., update(cn), finalize() on one context,
\* concatenated, are those of update(P), finalize() on a fresh context with
\* the same cipher and mode, P = c1 + ... + cn, and finalize ends the same way.
C7_ChunkedEqualsBulk ==
    (last.op = "finalize" /\ ~last.reuse) =>
        /\ last.err = Bulk(ctx, ctx.fed).err
        /\ ctx.out = Bulk(ctx, ctx.fed).out

\* two blocks fed under CBC in chunks that split a block have been finalized
C7_Witness ==
    /\ last.op = "finalize" /\ ~last.reuse /\ last.err = "none"
    /\ ctx.mode.kind = "CBC" /\ ctx.midsplit
    /\ Len(ctx.fed) = 2 * last.bs
    /\ Len(ctx.out) = Len(ctx.fed)

\* C8 as stated: finalize succeeds after any sequence of updates and returns
\* between 0 and block_size bytes.
C8_FinalizeAlwaysSucceeds ==
    (last.op = "finalize" /\ ~last.reuse)
    => (last.err = "none" /\ Len(last.ret) <= last.bs)

\* C8 amended: finalize succeeds exactly when no partial block is buffered
\* (always in the stream modes, whose block size is 1); it then returns no
\* bytes and cleans the context up.  With a partial block buffered it fails
\* with AssertionError, returns nothing and flushes nothing.
C8_FinalizeNeedsWholeBlocks ==
    (last.op = "finalize" /\ ~last.reuse) =>
        /\ last.err = "none" <=> last.buffered = 0
        /\ last.bs = 1 => last.buffered = 0
        /\ last.buflen = last.bs
        /\ last.err = "none"
           => (last.ret = <<>> /\ ~ctx.bound /\ ctx.finalized)
        /\ last.err # "none"
           => (last.err = "AssertionError" /\ last.ret = <<>> /\ ctx.bound
                 /\ Len(ctx.native.buf) = last.buffered)

\* finalize has refused a buffered partial block
C8_Witness ==
    /\ last.op = "finalize" /\ ~last.reuse
    /\ last.err = "AssertionError"
    /\ last.buffered > 0 /\ last.buffered < last.bs

\* C9: a constructed registry holds an adapter for each of the 10 pairs
\* {AES, Camellia} x {CBC, CTR, ECB, OFB, CFB} and the 3 pairs
\* TripleDES x {CBC, CFB, OFB} and for no other pair, and the default
\* registration raises no duplicate-registration error; afterwards only the
\* pairs registered since are added.
C9_DefaultPopulation ==
    /\ Registered(registry) = DefaultPairs \cup DynPairs
    /\ DynPairs \cap DefaultPairs = {}
    /\ \A p \in DefaultPairs :
           registry[p] = IF p[1] = "TripleDES" THEN FmtDes3 ELSE FmtFull
    /\ last.op = "init"
       => (last.err = "none" /\ Registered(registry) = DefaultPairs
             /\ Cardinality(Registered(registry)) = 13)

\* the registry as constructed, with TripleDES in ECB and CTR left out
C9_Witness ==
    /\ last.op = "init" /\ dyn = {}
    /\ registry[<<"TripleDES", "ECB">>] = "none"
    /\ registry[<<"TripleDES", "CTR">>] = "none"
    /\ registry[<<"TripleDES", "CBC">>] = FmtDes3
    /\ registry[<<"Camellia", "CTR">>] = FmtFull

\* the lower-case mode names of the engine's cipher table
EngineModeName(m) ==
    CASE m = "CBC" -> "cbc"
      [] m = "CTR" -> "ctr"
      [] m = "ECB" -> "ecb"
      [] m = "OFB" -> "ofb"
      [] m = "CFB" -> "cfb"

\* C10: the name built for a default-registered pair depends on the cipher
\* name, the key size and the mode name only: "aes-<bits>-<mode>" and
\* "camellia-<bits>-<mode>" in lower case, "des-ede3-<mode>" for TripleDES
\* whatever the key.
C10_NamingDeterminism ==
    (last.op \in {"supported", "create"} /\ LastPair \in DefaultPairs) =>
        /\ last.cipher = "AES"
           => last.name = "aes-" \o ToString(last.key_size) \o "-"
                              \o EngineModeName(last.mode)
        /\ last.cipher = "Camellia"
           => last.name = "camellia-" \o ToString(last.key_size) \o "-"
                              \o EngineModeName(last.mode)
        /\ last.cipher = "TripleDES"
           => last.name = "des-ede3-" \o EngineModeName(last.mode)
        /\ (last.cipher = "AES" /\ last.key_size = 128 /\ last.mode = "CBC")
           => last.name = "aes-128-cbc"
        /\ (last.cipher = "AES" /\ last.key_size = 256 /\ last.mode = "ECB")
           => last.name = "aes-256-ecb"
        /\ (last.cipher = "TripleDES" /\ last.mode = "CFB")
           => last.name = "des-ede3-cfb"

\* a context has been created for TripleDES with a 16-byte key in CFB
C10_Witness ==
    /\ last.op = "create" /\ last.err = "none"
    /\ last.cipher = "TripleDES" /\ last.key_size = 128
    /\ last.name = "des-ede3-cfb"

\* the outcome of update(P), finalize() on a fresh encrypt context of c's
\* cipher and mode, with the concatenated output then fed through update,
\* finalize on a fresh decrypt context of the same cipher and mode
RoundTrip(c, P) ==
    LET e == Bulk([c EXCEPT !.enc = TRUE], P)
        d == Bulk([c EXCEPT !.enc = FALSE], e.out)
    IN  [enc_err |-> e.err, dec_err |-> d.err, out |-> d.out]

\* C11: the concatenated update and finalize output of an encrypt context
\* that finalized (its input a whole number of blocks, or of any length in
\* CTR, OFB and CFB), fed to a decrypt context created with the same cipher
\* and mode, comes back as exactly the plaintext, and that decryption
\* finalizes without error.
C11_RoundTrip ==
    (last.op = "finalize" /\ ~last.reuse /\ last.err = "none" /\ ctx.enc) =>
        /\ Len(ctx.fed) % last.bs = 0
        /\ Bulk([ctx EXCEPT !.enc = FALSE], ctx.out)
             = [err |-> "none", out |-> ctx.fed]
        /\ RoundTrip(ctx, ctx.fed)
             = [enc_err |-> "none", dec_err |-> "none", out |-> ctx.fed]

\* two blocks have been encrypted under CBC with a non-zero initialization
\* vector, and the ciphertext differs from the plaintext
C11_Witness ==
    /\ last.op = "finalize" /\ ~last.reuse /\ last.err = "none"
    /\ ctx.enc
    /\ ctx.mode.kind = "CBC"
    /\ ctx.mode.initialization_vector[1] = 1
    /\ Len(ctx.fed) = 2 * last.bs
    /\ ctx.out # ctx.fed

\* create_ctx, update_ctx(msg), finalize_ctx with the algorithm's digest
\* length, on a fresh context: the digest returned
FreshDigest(name, msg) ==
    LET c0 == Hashes_create_ctx(NoDigests.heap, name, 1)
        u  == update_ctx(c0.heap, c0.c, msg)
    IN  finalize_ctx(u.heap, c0.c, EVP_MD_size(name)).ret

\* the state the engine holds for the digest context in slot s is that of
\* the bytes fed to it (those of its prefix included) and of nothing else
OwnState(m, s) ==
    (m.ctxs[s].ref /\ m.ctxs[s].digest # NULL) =>
        /\ m.ctxs[s].data \in MdAddrs
        /\ m.heap[m.ctxs[s].data] =
               [used |-> TRUE,
                st |-> MdFold(MdInit(m.ctxs[s].digest), m.ctxs[s].fed)]

\* C12: copy_ctx gives the copy the state accumulated so far in a block of
\* its own and leaves the original as it was; an update or a finalize of one
\* of the two contexts changes neither the other context nor its state, which
\* stays usable; each context holds the state of its prefix and its own
\* suffix, and finalize_ctx with the algorithm's digest length returns the
\* digest a fresh context gives for that whole input.
C12_CopyIndependence ==
    [][/\ \A s \in Slots :
            (last'.op \in {"md_update", "md_finalize"} /\ last'.slot = s) =>
                /\ md'.ctxs[Other(s)] = md.ctxs[Other(s)]
                /\ md.ctxs[Other(s)].data \in MdAddrs
                   => md'.heap[md.ctxs[Other(s)].data]
                        = md.heap[md.ctxs[Other(s)].data]
       /\ (last'.op = "md_copy" /\ last'.err = "none") =>
                /\ md'.ctxs["C"] = md.ctxs["C"]
                /\ md'.heap[md.ctxs["C"].data] = md.heap[md.ctxs["C"].data]
                /\ md'.ctxs["C2"].data # md.ctxs["C"].data
                /\ md'.heap[md'.ctxs["C2"].data] = md.heap[md.ctxs["C"].data]
                /\ md'.ctxs["C2"].fed = md.ctxs["C"].fed
       /\ \A s \in Slots : OwnState(md', s)
       /\ (last'.op = "md_finalize" /\ last'.err = "none"
             /\ last'.datalen = last'.bs)
          => last'.ret = FreshDigest(last'.name, md.ctxs[last'.slot].fed)]_vars

\* a context fed a prefix was copied, the two were fed different suffixes,
\* the original has been finalized, and the copy has now been finalized to
\* its own digest, which is not that of the original's input
C12_Witness ==
    /\ last.op = "md_finalize" /\ last.err = "none" /\ last.slot = "C2"
    /\ last.datalen = last.bs
    /\ md.ctxs["C2"].copied /\ md.ctxs["C2"].prefixed
    /\ md.ctxs["C"].cleanups = 1 /\ md.ctxs["C2"].cleanups = 1
    /\ Len(md.ctxs["C"].fed) = Len(md.ctxs["C2"].fed)
    /\ md.ctxs["C"].fed[1] = md.ctxs["C2"].fed[1]
    /\ md.ctxs["C"].fed # md.ctxs["C2"].fed
    /\ last.ret = FreshDigest(last.name, md.ctxs["C2"].fed)
    /\ last.ret # FreshDigest(last.name, md.ctxs["C"].fed)

\* C13 as stated: create_ctx for a name the engine does not recognize fails
\* with UnsupportedAlgorithm and returns no context.
C13_UnsupportedAlgorithm ==
    (last.op = "md_create" /\ EVP_get_digestbyname(last.name) = NULL)
    => (last.err = "UnsupportedAlgorithm" /\ ~md.ctxs["C"].ref)

\* C13 amended: create_ctx for a name the engine does not recognize fails
\* with AssertionError, before any digest is bound, and returns no context;
\* supported never raises and answers False for such a name; supported
\* answers True exactly for the names for which create_ctx gets past the
\* lookup of the digest.
C13_DigestLookup ==
    /\ last.op = "md_supported" =>
        /\ last.err = "none"
        /\ last.ret \in BOOLEAN
        /\ last.ret = (EVP_get_digestbyname(last.name) # NULL)
        /\ last.ret <=> Hashes_create_ctx(md.heap, last.name, 1).err = "none"
        /\ last.ret <=> Hashes_create_ctx(md.heap, last.name, 0).stage = "init"
    /\ last.op = "md_create" =>
        /\ EVP_get_digestbyname(last.name) = NULL
           => (/\ last.err = "AssertionError" /\ last.stage = "resolve"
               /\ ~md.ctxs["C"].ref
               /\ md.ctxs["C"].digest = NULL /\ md.ctxs["C"].data = 0)
        /\ last.stage # "resolve" <=> Hashes_supported(last.name).ret
        /\ last.err = "none"
           => (/\ Hashes_supported(last.name).ret
               /\ md.ctxs["C"].ref
               /\ md.ctxs["C"].digest = last.name)

\* create_ctx has failed for sha3, which the engine does not know; the
\* context it allocated is left to the collector
C13_Witness ==
    /\ last.op = "md_create" /\ last.name = "sha3"
    /\ last.err = "AssertionError" /\ last.stage = "resolve"
    /\ ~md.ctxs["C"].ref /\ md.ctxs["C"].gc
    /\ ~Hashes_supported(last.name).ret

\* C14: finalize_ctx returns exactly digest_size bytes and cleans the context
\* up when digest_size is the algorithm's digest length; with any other
\* digest_size it fails with an error the engine reported, returns nothing
\* and writes nothing past the end of its buffer.
C14_FinalizeSizeContract ==
    last.op = "md_finalize" =>
        IF last.datalen = last.bs
        THEN /\ last.err = "none"
             /\ Len(last.ret) = last.datalen
             /\ md.ctxs[last.slot].cleanups = 1
             /\ md.ctxs[last.slot].digest = NULL
        ELSE /\ last.err = "AssertionError"
             /\ ~last.overrun

C16_PaddingDisabled ==
    /\ (ctx.ref /\ ctx.bound) => ~ctx.native.padding
    /\ (last.op = "create" /\ last.err = "none")
       => (ctx.ref /\ ctx.bound /\ ~ctx.native.padding)
    /\ (last.op = "create" /\ last.stage = "init")
       => (last.err = "AssertionError" /\ ~ctx.ref /\ ~ctx.bound)
    /\ (last.op = "update" /\ ~last.reuse) => ~ctx.native.padding
    /\ ctx.ref => ctx.handle = "allocated"

\* a decrypt context has taken a whole block in updates and its padding is
\* still off
C16_Witness ==
    /\ last.op = "update" /\ last.err = "none"
    /\ ctx.ref /\ ctx.bound /\ ~ctx.enc
    /\ ~ctx.native.padding
    /\ last.bs > 1 /\ Len(ctx.fed) = last.bs /\ Len(ctx.out) = last.bs

\* C17: an encrypt context fed, in any chunks, a plaintext whose length is a
\* multiple of the block size finalizes without error; finalize returns no
\* bytes and the update outputs together are as long as the plaintext.
C17_LengthPreservation ==
    (last.op = "finalize" /\ ~last.reuse /\ ctx.enc
       /\ Len(ctx.fed) % last.bs = 0) =>
        /\ last.err = "none"
        /\ last.ret = <<>>
        /\ last.outlen = 0
        /\ Len(ctx.out) = Len(ctx.fed)

\* one AES block fed to a CBC encrypt context in chunks that split it has
\* been finalized
C17_Witness ==
    /\ last.op = "finalize" /\ ~last.reuse /\ last.err = "none"
    /\ ctx.enc /\ ctx.cipher.kind = "AES" /\ ctx.mode.kind = "CBC"
    /\ ctx.midsplit
    /\ Len(ctx.fed) = CipherBlock("AES")
    /\ last.ret = <<>> /\ Len(ctx.out) = CipherBlock("AES")

\* C18: supported and context creation, succeeding or failing, leave the
\* registry as it was, and so does a register_cipher_adapter call that
\* raises; the registry changes only by a register_cipher_adapter call that
\* succeeds, which adds its pair with its adapter and nothing else.
C18_RegistryFrame ==
    [][/\ last'.op \in {"supported", "create"} => registry' = registry
       /\ (last'.op = "register" /\ last'.err # "none")
          => registry' = registry
       /\ registry' # registry
          => (last'.op = "register" /\ last'.err = "none")
       /\ (last'.op = "register" /\ last'.err = "none") =>
              /\ registry[<<last'.cipher, last'.mode>>] = "none"
              /\ registry' = [registry EXCEPT
                                ![<<last'.cipher, last'.mode>>] = last'.adapter]
              /\ Registered(registry')
                   = Registered(registry) \cup {<<last'.cipher, last'.mode>>}
              /\ Cardinality(Registered(registry'))
                   = Cardinality(Registered(registry)) + 1]_vars

\* a context creation has failed for a pair with no adapter after a pair was
\* registered, and the registry holds the default pairs and that pair
C18_Witness ==
    /\ last.op = "create" /\ last.err = "KeyError"
    /\ Cardinality(dyn) = 1
    /\ Registered(registry) = DefaultPairs \cup DynPairs
    /\ Cardinality(Registered(registry)) = Cardinality(DefaultPairs) + 1

\* supported(cipher, mode) for a cipher of kind c with a key of n bytes
\* and a mode object m, in the registry and engine of the state
SupportedNow(c, n, m) ==
    supported(registry, engine, [kind |-> c, keylen |-> n], m).ret

\* the stages of create_encrypt_ctx and create_decrypt_ctx for that cipher
\* and mode, the native init call succeeding or failing
CreateStagesNow(c, n, m) ==
    {create_encrypt_ctx(registry, engine, [kind |-> c, keylen |-> n], m,
                        res).stage : res \in {0, 1}}
    \cup {create_decrypt_ctx(registry, engine, [kind |-> c, keylen |-> n], m,
                             res).stage : res \in {0, 1}}

\* C19: when supported answers True for a cipher and a mode, creating an
\* encrypt or a decrypt context for them gets past the registry lookup and
\* the engine's answer and reaches the native init call; when it answers
\* False, creation fails at the lookup or at the engine's answer, and no
\* cipher is bound.
C19_SupportedAgreesWithCreate ==
    /\ last.op = "create" =>
        /\ SupportedNow(ctx.cipher.kind, ctx.cipher.keylen, ctx.mode)
           => last.stage \in {"init", "created"}
        /\ ~SupportedNow(ctx.cipher.kind, ctx.cipher.keylen, ctx.mode)
           => (/\ last.stage \in {"lookup", "resolve"}
               /\ last.err # "none"
               /\ ~ctx.ref /\ ~ctx.bound /\ ctx.native = BlankNative)
    /\ last.op = "supported" =>
        \A m \in {d \in ModeDescs(last.cipher) : d.kind = last.mode} :
            /\ last.ret = SupportedNow(last.cipher, last.key_size \div 8, m)
            /\ last.ret = TRUE
               => CreateStagesNow(last.cipher, last.key_size \div 8, m)
                    = {"init", "created"}
            /\ last.ret = FALSE
               => CreateStagesNow(last.cipher, last.key_size \div 8, m)
                    \in {{"lookup"}, {"resolve"}}

\* supported answers True for the cipher and mode of a creation that got
\* past resolution and failed in the native init call
C19_Witness ==
    /\ last.op = "create" /\ last.stage = "init"
    /\ last.err = "AssertionError"
    /\ SupportedNow(ctx.cipher.kind, ctx.cipher.keylen, ctx.mode)

\* the calls of threads t and u are over, and were for the same pair, which
\* had no adapter before them, with different adapters
SamePairCalls(t, u) ==
    /\ t # u
    /\ thr[t].pc \in {"returned", "raised"}
    /\ thr[u].pc \in {"returned", "raised"}
    /\ thr[t].cipher_cls = thr[u].cipher_cls
    /\ thr[t].mode_cls = thr[u].mode_cls
    /\ thr[t].adapter # thr[u].adapter
    /\ <<thr[t].cipher_cls, thr[t].mode_cls>> \notin DefaultPairs

\* C20: of two register_cipher_adapter calls made by two threads for the
\* same pair with no adapter and with different adapters, exactly one
\* returns and the other raises the duplicate-registration ValueError,
\* however the membership tests and the stores interleave; and once a call
\* has returned, the registry holds its adapter.
C20_OneShotUnderInterleaving ==
    /\ \A t, u \in Threads :
           SamePairCalls(t, u) =>
               \/ thr[t].pc = "returned" /\ thr[u].pc = "raised"
                    /\ thr[u].err = "ValueError"
               \/ thr[u].pc = "returned" /\ thr[t].pc = "raised"
                    /\ thr[t].err = "ValueError"
    /\ \A t \in Threads :
           thr[t].pc = "returned"
           => registry[<<thr[t].cipher_cls, thr[t].mode_cls>>] = thr[t].adapter

=============================================================================
